---------------------------- MODULE Spec2Model ----------------------------
(***************************************************************************)
(* A model of the rate-limit pallet (src/rate-limit/src/lib.rs): the three *)
(* storage items (RateLimitRules, RateLimitQuota, BypassLimitWhitelist),   *)
(* the four governance calls and the RateLimiter trait implementation      *)
(* (bypass_limit, is_allowed, record), together with the two clocks the    *)
(* quota computation reads (the block number and the unix time).           *)
(*                                                                         *)
(* A call is one atomic step: the runtime runs extrinsics one at a time    *)
(* and every governance call is #[transactional].  The events a call       *)
(* deposits and its weight are not modelled; what a call returns is kept   *)
(* in the history variable `last`.  Every call reads and writes only the   *)
(* entry of the (limiter, key) it is given, and the model holds one such   *)
(* entry.  The history variable `window` follows the quota resets of a key *)
(* and the amounts recorded since, in the specification where it is used.  *)
(***************************************************************************)
EXTENDS Integers, Sequences, FiniteSets, TLC

VARIABLES
    RateLimitRules,        \* double map (RateLimiterId, encoded key) -> Option<RateLimitRule>
    RateLimitQuota,        \* double map (RateLimiterId, encoded key) -> (u64, u128), ValueQuery
    BypassLimitWhitelist,  \* map RateLimiterId -> BoundedVec<KeyFilter, MaxWhitelistFilterCount>
    block_number,          \* frame_system::Pallet::<T>::block_number()
    now_secs,              \* T::UnixTime::now().as_secs()
    last,                  \* history: the call made by the last step and what it returned
    scn,                   \* history: how far the run has followed the PerSeconds example
    window                 \* history: the quota resets of each key and what was recorded since

vars == <<RateLimitRules, RateLimitQuota, BypassLimitWhitelist, block_number, now_secs, last, scn,
          window>>

---------------------------------------------------------------------------
(* Bounds of the model.                                                    *)

\* largest blocks_count / secs_count a configured rule is drawn with (0 is the invalid one)
MaxCount == 2
\* largest quota / quota_increment / max_quota a rule is drawn with (0 is the invalid one)
MaxQuota == 2
\* the block number stops advancing here
MaxBlock == 4
\* the unix time stops advancing here
MaxSecs == 2
\* T::MaxWhitelistFilterCount, the capacity of a limiter's whitelist
MaxWhitelistFilterCount == 2

Min(a, b) == IF a <= b THEN a ELSE b

---------------------------------------------------------------------------
(* Identities and inputs.                                                  *)

\* the RateLimiterId values in use
Limiters == {0}

\* the encoded keys that rules are configured for
Keys == {<<1>>}

\* callers of the governance calls; ensure_origin lets only GovernanceOrigin through
GovernanceOrigin == "governance"
Origins == {GovernanceOrigin, "signed"}

---------------------------------------------------------------------------
(* RateLimitRule.                                                          *)

PerBlocks(b, q) == [kind |-> "PerBlocks", blocks_count |-> b, quota |-> q]
PerSeconds(s, q) == [kind |-> "PerSeconds", secs_count |-> s, quota |-> q]
TokenBucket(b, inc, max) ==
    [kind |-> "TokenBucket", blocks_count |-> b, quota_increment |-> inc, max_quota |-> max]
Unlimited == [kind |-> "Unlimited"]
NotAllowed == [kind |-> "NotAllowed"]
\* Option::None, as the stored value of a key without a rule and as the `update` argument
None == [kind |-> "None"]

\* the values update_rate_limit_rule is called with, the invalid ones included
RuleInputs ==
    {PerBlocks(b, q) : b \in 0..MaxCount, q \in 0..MaxQuota}
        \cup {PerSeconds(s, q) : s \in 0..MaxCount, q \in 0..MaxQuota}
        \cup {TokenBucket(b, inc, max) : b \in 0..MaxCount, inc \in 0..MaxQuota, max \in 0..MaxQuota}
        \cup {Unlimited, NotAllowed, None}

\* the amounts is_allowed and record are called with: up to one more than any cap
Amounts == 0..(MaxQuota + 1)

\* the rule and the amounts of the PerSeconds example of the specification
ScnRule == PerSeconds(10, 100)
ScnAmounts == {50, 60}
\* the limiter and key the example is run on
ScnPair == <<0, <<1>>>>

\* the three kinds that produce quota
Replenishing(rule) == rule.kind \in {"PerBlocks", "PerSeconds", "TokenBucket"}

\* the cap of a replenishing rule: quota, or max_quota for a token bucket
RuleCap(rule) == IF rule.kind = "TokenBucket" THEN rule.max_quota ELSE rule.quota

---------------------------------------------------------------------------
(* RateLimitQuota entries.                                                 *)

\* no entry under the key
Absent == <<>>
\* ValueQuery: a missing entry reads as the default (0, 0)
ZeroQuota == <<0, 0>>
QuotaValue(entry) == IF entry = Absent THEN ZeroQuota ELSE entry
rate_limit_quota(l, k) == QuotaValue(RateLimitQuota[<<l, k>>])
rate_limit_rules(l, k) == RateLimitRules[<<l, k>>]

\* u64 / u128 saturating_sub
saturating_sub(a, b) == IF a >= b THEN a - b ELSE 0
\* u128 saturating_mul and saturating_add: every value of the model is far below
\* 2^128 - 1, where the saturated and the exact result are the same number
saturating_mul(a, b) == a * b
saturating_add(a, b) == a + b

---------------------------------------------------------------------------
(* update_rate_limit_rule.                                                 *)

\* ValidRule with the quota parameters left unchecked: only the counts are ensured
ValidRule_CountsOnly(update) ==
    CASE update.kind = "PerBlocks" -> update.blocks_count # 0
      [] update.kind = "PerSeconds" -> update.secs_count # 0
      [] update.kind = "TokenBucket" -> update.blocks_count # 0
      [] OTHER -> TRUE

\* the ensure! of each rule kind: no parameter of a replenishing rule is zero
ValidRule(update) ==
    CASE update.kind = "PerBlocks" -> update.blocks_count # 0 /\ update.quota # 0
      [] update.kind = "PerSeconds" -> update.secs_count # 0 /\ update.quota # 0
      [] update.kind = "TokenBucket" ->
            update.blocks_count # 0 /\ update.quota_increment # 0 /\ update.max_quota # 0
      [] OTHER -> TRUE

\* QuotaRemoved without the remove: the quota of the old rule is kept
QuotaRemoved_Kept(store, l, k) == store

\* RateLimitQuota::<T>::remove(&rate_limiter_id, &encoded_key)
QuotaRemoved(store, l, k) == [store EXCEPT ![<<l, k>>] = Absent]

\* *maybe_limit = update.clone(), written back by try_mutate_exists on Ok
RuleReplaced(store, l, k, update) == [store EXCEPT ![<<l, k>>] = update]

\* history of a call: the kind of the rule passed and whether one of its parameters is zero
CallShape(update) ==
    [kind |-> update.kind,
     zero |-> \E name \in DOMAIN update \ {"kind"} : update[name] = 0]

update_rate_limit_rule(origin, rate_limiter_id, encoded_key, update) ==
    /\ origin = GovernanceOrigin
    /\ IF ValidRule(update)
          THEN /\ RateLimitRules' = RuleReplaced(RateLimitRules, rate_limiter_id, encoded_key, update)
               /\ RateLimitQuota' = QuotaRemoved(RateLimitQuota, rate_limiter_id, encoded_key)
               /\ last' = [op |-> "update_rate_limit_rule", l |-> rate_limiter_id, key |-> encoded_key,
                           arg |-> CallShape(update), res |-> "Ok"]
          ELSE \* try_mutate_exists writes nothing on Err, and the quota is not yet removed
               /\ UNCHANGED <<RateLimitRules, RateLimitQuota>>
               /\ last' = [op |-> "update_rate_limit_rule", l |-> rate_limiter_id, key |-> encoded_key,
                           arg |-> CallShape(update), res |-> "InvalidRateLimitRule"]
    /\ scn' = IF <<rate_limiter_id, encoded_key>> # ScnPair THEN scn
              ELSE IF update = ScnRule /\ now_secs = 0 THEN 1 ELSE 0
    /\ UNCHANGED <<BypassLimitWhitelist, block_number, now_secs>>

---------------------------------------------------------------------------
(* access_remainer_quota_after_update.                                     *)

\* ReplenishPerBlocks with a strict comparison: the reset comes one block late
ReplenishPerBlocks_Strict(rate_limit_rule, pair, now) ==
    LET interval == saturating_sub(now, pair[1])
    IN IF interval > rate_limit_rule.blocks_count
          THEN <<now, rate_limit_rule.quota>>
          ELSE pair

\* ReplenishPerBlocks that resets one block early
ReplenishPerBlocks_Early(rate_limit_rule, pair, now) ==
    LET interval == saturating_sub(now, pair[1])
    IN IF interval + 1 >= rate_limit_rule.blocks_count
          THEN <<now, rate_limit_rule.quota>>
          ELSE pair

\* the PerBlocks arm: reset to (now, quota) once blocks_count blocks have gone by
ReplenishPerBlocks(rate_limit_rule, pair, now) ==
    LET interval == saturating_sub(now, pair[1])
    IN IF interval >= rate_limit_rule.blocks_count
          THEN <<now, rate_limit_rule.quota>>
          ELSE pair

\* ReplenishPerSeconds that refills the quota and leaves last_updated as it was
ReplenishPerSeconds_KeepsStamp(rate_limit_rule, pair, now) ==
    LET interval == saturating_sub(now, pair[1])
    IN IF interval >= rate_limit_rule.secs_count
          THEN <<pair[1], rate_limit_rule.quota>>
          ELSE pair

\* the PerSeconds arm: reset to (now, quota) once secs_count seconds have gone by
ReplenishPerSeconds(rate_limit_rule, pair, now) ==
    LET interval == saturating_sub(now, pair[1])
    IN IF interval >= rate_limit_rule.secs_count
          THEN <<now, rate_limit_rule.quota>>
          ELSE pair

\* ReplenishTokenBucket without the cut at max_quota
ReplenishTokenBucket_NoCap(rate_limit_rule, pair, now) ==
    LET interval == saturating_sub(now, pair[1])
    IN IF rate_limit_rule.blocks_count # 0 /\ interval >= rate_limit_rule.blocks_count
          THEN LET inc_times == interval \div rate_limit_rule.blocks_count
               IN <<now,
                    saturating_add(saturating_mul(rate_limit_rule.quota_increment, inc_times),
                                   pair[2])>>
          ELSE pair

\* ReplenishTokenBucket that adds one quota_increment however long the interval
ReplenishTokenBucket_OneIncrement(rate_limit_rule, pair, now) ==
    LET interval == saturating_sub(now, pair[1])
    IN IF rate_limit_rule.blocks_count # 0 /\ interval >= rate_limit_rule.blocks_count
          THEN <<now,
                 Min(saturating_add(rate_limit_rule.quota_increment, pair[2]),
                     rate_limit_rule.max_quota)>>
          ELSE pair

\* ReplenishTokenBucket that counts a started interval as a whole one
ReplenishTokenBucket_RoundsUp(rate_limit_rule, pair, now) ==
    LET interval == saturating_sub(now, pair[1])
    IN IF rate_limit_rule.blocks_count # 0 /\ interval >= rate_limit_rule.blocks_count
          THEN LET inc_times == (interval + rate_limit_rule.blocks_count - 1)
                                    \div rate_limit_rule.blocks_count
               IN <<now,
                    Min(saturating_add(saturating_mul(rate_limit_rule.quota_increment, inc_times),
                                       pair[2]),
                        rate_limit_rule.max_quota)>>
          ELSE pair

\* the TokenBucket arm: quota_increment for every whole blocks_count in the
\* interval, added to the remainer and cut at max_quota
ReplenishTokenBucket(rate_limit_rule, pair, now) ==
    LET interval == saturating_sub(now, pair[1])
    IN IF rate_limit_rule.blocks_count # 0 /\ interval >= rate_limit_rule.blocks_count
          THEN LET inc_times == interval \div rate_limit_rule.blocks_count
               IN <<now,
                    Min(saturating_add(saturating_mul(rate_limit_rule.quota_increment, inc_times),
                                       pair[2]),
                        rate_limit_rule.max_quota)>>
          ELSE pair

\* the closure run by RateLimitQuota::mutate: the quota pair after the rule has
\* produced its new quota, read at block `now_block` and unix time `secs`
Replenished(rate_limit_rule, pair, now_block, secs) ==
    CASE rate_limit_rule.kind = "PerBlocks" -> ReplenishPerBlocks(rate_limit_rule, pair, now_block)
      [] rate_limit_rule.kind = "PerSeconds" -> ReplenishPerSeconds(rate_limit_rule, pair, secs)
      [] rate_limit_rule.kind = "TokenBucket" -> ReplenishTokenBucket(rate_limit_rule, pair, now_block)
      [] OTHER -> pair

---------------------------------------------------------------------------
(* is_allowed and record.                                                  *)

\* Allowed with NotAllowed letting an amount of zero through
Allowed_ZeroPasses(rule, pair, value) ==
    CASE Replenishing(rule) -> value <= pair[2]
      [] rule.kind = "Unlimited" -> TRUE
      [] rule.kind = "NotAllowed" -> value = 0
      [] OTHER -> TRUE

\* the `allowed` of is_allowed, given the quota pair after the update
Allowed(rule, pair, value) ==
    CASE Replenishing(rule) -> value <= pair[2]
      [] rule.kind = "Unlimited" -> TRUE
      [] rule.kind = "NotAllowed" -> FALSE
      [] OTHER -> TRUE

\* QuotaAfterIsAllowed that runs the mutate under every rule: a key without a
\* replenishing rule gets the default pair written as its entry
QuotaAfterIsAllowed_AlwaysMutate(rule, entry, now_block, secs) ==
    Replenished(rule, QuotaValue(entry), now_block, secs)

\* the entry is_allowed leaves in RateLimitQuota: mutate writes the pair back
\* under a replenishing rule, and nothing is touched otherwise
QuotaAfterIsAllowed(rule, entry, now_block, secs) ==
    IF Replenishing(rule) THEN Replenished(rule, QuotaValue(entry), now_block, secs) ELSE entry

\* the position of the PerSeconds example after a call of is_allowed
ScnAfterIsAllowed(pair, value) ==
    CASE pair # ScnPair -> scn
      [] scn = 1 /\ value = 50 /\ now_secs = 0 -> 2
      [] scn = 3 /\ value = 60 /\ now_secs = 5 -> 4
      [] scn = 4 /\ value = 60 /\ now_secs = 12 -> 5
      [] OTHER -> 0

\* is_allowed that writes the replenished quota back only when it allows
is_allowed_KeepOnDeny(limiter_id, key, value) ==
    LET rule == rate_limit_rules(limiter_id, key)
        entry == QuotaAfterIsAllowed(rule, RateLimitQuota[<<limiter_id, key>>], block_number, now_secs)
        allowed == Allowed(rule, QuotaValue(entry), value)
    IN /\ RateLimitQuota' = IF allowed THEN [RateLimitQuota EXCEPT ![<<limiter_id, key>>] = entry]
                                       ELSE RateLimitQuota
       /\ last' = [op |-> "is_allowed", l |-> limiter_id, key |-> key, arg |-> value,
                   res |-> IF allowed THEN "Ok" ELSE "ExceedLimit"]
       /\ scn' = ScnAfterIsAllowed(<<limiter_id, key>>, value)
       /\ UNCHANGED <<RateLimitRules, BypassLimitWhitelist, block_number, now_secs>>

is_allowed(limiter_id, key, value) ==
    LET rule == rate_limit_rules(limiter_id, key)
        entry == QuotaAfterIsAllowed(rule, RateLimitQuota[<<limiter_id, key>>], block_number, now_secs)
    IN /\ RateLimitQuota' = [RateLimitQuota EXCEPT ![<<limiter_id, key>>] = entry]
       /\ last' = [op |-> "is_allowed", l |-> limiter_id, key |-> key, arg |-> value,
                   res |-> IF Allowed(rule, QuotaValue(entry), value) THEN "Ok" ELSE "ExceedLimit"]
       /\ scn' = ScnAfterIsAllowed(<<limiter_id, key>>, value)
       /\ UNCHANGED <<RateLimitRules, BypassLimitWhitelist, block_number, now_secs>>

\* QuotaAfterRecord that consumes only what the remainer covers: an amount
\* above the remainer is not recorded at all
QuotaAfterRecord_SkipLarge(rule, entry, value) ==
    IF Replenishing(rule) /\ value <= QuotaValue(entry)[2]
       THEN <<QuotaValue(entry)[1], QuotaValue(entry)[2] - value>>
       ELSE entry

\* QuotaAfterRecord that lets the rule produce its new quota before consuming
QuotaAfterRecord_Replenishes(rule, entry, value) ==
    IF Replenishing(rule)
       THEN LET pair == Replenished(rule, QuotaValue(entry), block_number, now_secs)
            IN <<pair[1], saturating_sub(pair[2], value)>>
       ELSE entry

\* the entry record leaves in RateLimitQuota
QuotaAfterRecord(rule, entry, value) ==
    IF Replenishing(rule)
       THEN <<QuotaValue(entry)[1], saturating_sub(QuotaValue(entry)[2], value)>>
       ELSE entry

record(limiter_id, key, value) ==
    LET rule == rate_limit_rules(limiter_id, key)
    IN /\ RateLimitQuota' = [RateLimitQuota EXCEPT ![<<limiter_id, key>>] =
                                QuotaAfterRecord(rule, RateLimitQuota[<<limiter_id, key>>], value)]
       /\ last' = [op |-> "record", l |-> limiter_id, key |-> key, arg |-> value, res |-> "Ok"]
       /\ scn' = IF <<limiter_id, key>> # ScnPair THEN scn ELSE IF scn = 2 /\ value = 50 THEN 3 ELSE 0
       /\ UNCHANGED <<RateLimitRules, BypassLimitWhitelist, block_number, now_secs>>

---------------------------------------------------------------------------
(* The clocks.                                                             *)

\* a block is produced
NextBlock ==
    /\ block_number < MaxBlock
    /\ block_number' = block_number + 1
    /\ last' = [op |-> "clock", l |-> 0, key |-> <<>>, arg |-> 0, res |-> "Ok"]
    /\ UNCHANGED <<RateLimitRules, RateLimitQuota, BypassLimitWhitelist, now_secs, scn>>

\* a second of unix time passes
NextSecond(max_secs) ==
    /\ now_secs < max_secs
    /\ now_secs' = now_secs + 1
    /\ last' = [op |-> "clock", l |-> 0, key |-> <<>>, arg |-> 0, res |-> "Ok"]
    /\ UNCHANGED <<RateLimitRules, RateLimitQuota, BypassLimitWhitelist, block_number, scn>>

---------------------------------------------------------------------------
(* KeyFilter and its derived order.                                        *)

Match(vec) == [kind |-> "Match", bytes |-> vec]
StartsWith(prefix) == [kind |-> "StartsWith", bytes |-> prefix]
EndsWith(postfix) == [kind |-> "EndsWith", bytes |-> postfix]

\* the filters the whitelist calls are made with
KeyFilters ==
    {Match(<<1>>), Match(<<0, 1>>), StartsWith(<<0>>), StartsWith(<<0, 1>>),
     EndsWith(<<>>), EndsWith(<<1>>)}

\* the encoded keys bypass_limit is asked about
EncodedKeys == {<<>>, <<1>>, <<0, 1>>, <<1, 0>>, <<0, 1, 1>>}

\* the position of a variant in the enum declaration
VariantIndex(key_filter) ==
    CASE key_filter.kind = "Match" -> 0
      [] key_filter.kind = "StartsWith" -> 1
      [] OTHER -> 2

\* Ord of Vec<u8>: lexicographic, a proper prefix first; -1, 0 or 1
RECURSIVE VecCmp(_, _)
VecCmp(a, b) ==
    IF a = <<>> /\ b = <<>> THEN 0
    ELSE IF a = <<>> THEN -1
    ELSE IF b = <<>> THEN 1
    ELSE IF Head(a) < Head(b) THEN -1
    ELSE IF Head(a) > Head(b) THEN 1
    ELSE VecCmp(Tail(a), Tail(b))

\* #[derive(PartialOrd, Ord)] of KeyFilter: the variant first, then its payload
KeyFilterCmp(f, g) ==
    IF VariantIndex(f) < VariantIndex(g) THEN -1
    ELSE IF VariantIndex(f) > VariantIndex(g) THEN 1
    ELSE VecCmp(f.bytes, g.bytes)

\* slice::binary_search: Ok(index of a match) or Err(index to insert at),
\* indices counted from 0, over the half-open range left..right
RECURSIVE BinarySearchFrom(_, _, _, _)
BinarySearchFrom(whitelist, key_filter, left, right) ==
    IF left >= right THEN [ok |-> FALSE, index |-> left]
    ELSE LET mid == left + ((right - left) \div 2)
             cmp == KeyFilterCmp(whitelist[mid + 1], key_filter)
         IN IF cmp = -1 THEN BinarySearchFrom(whitelist, key_filter, mid + 1, right)
            ELSE IF cmp = 1 THEN BinarySearchFrom(whitelist, key_filter, left, mid)
            ELSE [ok |-> TRUE, index |-> mid]

binary_search(whitelist, key_filter) == BinarySearchFrom(whitelist, key_filter, 0, Len(whitelist))

\* Vec::insert(location, element), location counted from 0
InsertAt(whitelist, location, key_filter) ==
    SubSeq(whitelist, 1, location) \o <<key_filter>> \o SubSeq(whitelist, location + 1, Len(whitelist))

\* RemoveAt that pops the last element, wherever the filter was found
RemoveAt_Last(whitelist, location) == SubSeq(whitelist, 1, Len(whitelist) - 1)

\* Vec::remove(location), location counted from 0
RemoveAt(whitelist, location) ==
    SubSeq(whitelist, 1, location) \o SubSeq(whitelist, location + 2, Len(whitelist))

\* the place of an element in a sorted vector: after every element not greater (stable)
RECURSIVE SortedInsert(_, _)
SortedInsert(sorted, key_filter) ==
    IF sorted = <<>> THEN <<key_filter>>
    ELSE IF KeyFilterCmp(key_filter, Head(sorted)) = -1 THEN <<key_filter>> \o sorted
    ELSE <<Head(sorted)>> \o SortedInsert(Tail(sorted), key_filter)

\* whitelist.sort(): the elements of the list in KeyFilter order, duplicates kept
RECURSIVE Sort(_)
Sort(list) ==
    IF list = <<>> THEN <<>>
    ELSE SortedInsert(Sort(SubSeq(list, 1, Len(list) - 1)), list[Len(list)])

---------------------------------------------------------------------------
(* The whitelist calls.                                                    *)

\* the error remove_whitelist returns for a filter that binary_search does not find
RemoveMissingError == "FilterExisted"

\* add_whitelist with a plain Vec::insert: the capacity is not looked at
add_whitelist_Unbounded(origin, rate_limiter_id, key_filter) ==
    LET whitelist == BypassLimitWhitelist[rate_limiter_id]
        location == binary_search(whitelist, key_filter)
        res == IF location.ok THEN "FilterExisted" ELSE "Ok"
    IN /\ origin = GovernanceOrigin
       /\ BypassLimitWhitelist' =
            IF res = "Ok"
               THEN [BypassLimitWhitelist EXCEPT
                        ![rate_limiter_id] = InsertAt(whitelist, location.index, key_filter)]
               ELSE BypassLimitWhitelist
       /\ last' = [op |-> "add_whitelist", l |-> rate_limiter_id, key |-> <<>>,
                   arg |-> key_filter, res |-> res, was |-> whitelist]
       /\ UNCHANGED scn
       /\ UNCHANGED <<RateLimitRules, RateLimitQuota, block_number, now_secs>>

\* add_whitelist that pushes the filter at the end instead of at `location`
add_whitelist_Append(origin, rate_limiter_id, key_filter) ==
    LET whitelist == BypassLimitWhitelist[rate_limiter_id]
        location == binary_search(whitelist, key_filter)
        res == IF location.ok THEN "FilterExisted"
               ELSE IF Len(whitelist) >= MaxWhitelistFilterCount THEN "MaxFilterExceeded"
               ELSE "Ok"
    IN /\ origin = GovernanceOrigin
       /\ BypassLimitWhitelist' =
            IF res = "Ok"
               THEN [BypassLimitWhitelist EXCEPT ![rate_limiter_id] = Append(whitelist, key_filter)]
               ELSE BypassLimitWhitelist
       /\ last' = [op |-> "add_whitelist", l |-> rate_limiter_id, key |-> <<>>,
                   arg |-> key_filter, res |-> res, was |-> whitelist]
       /\ UNCHANGED scn
       /\ UNCHANGED <<RateLimitRules, RateLimitQuota, block_number, now_secs>>

add_whitelist(origin, rate_limiter_id, key_filter) ==
    LET whitelist == BypassLimitWhitelist[rate_limiter_id]
        location == binary_search(whitelist, key_filter)
        res == IF location.ok THEN "FilterExisted"
               ELSE IF Len(whitelist) >= MaxWhitelistFilterCount THEN "MaxFilterExceeded"
               ELSE "Ok"
    IN /\ origin = GovernanceOrigin
       /\ BypassLimitWhitelist' =
            IF res = "Ok"
               THEN [BypassLimitWhitelist EXCEPT
                        ![rate_limiter_id] = InsertAt(whitelist, location.index, key_filter)]
               ELSE BypassLimitWhitelist
       /\ last' = [op |-> "add_whitelist", l |-> rate_limiter_id, key |-> <<>>,
                   arg |-> key_filter, res |-> res, was |-> whitelist]
       /\ UNCHANGED scn
       /\ UNCHANGED <<RateLimitRules, RateLimitQuota, block_number, now_secs>>

\* history of a remove_whitelist: when the step before it was the successful
\* add_whitelist of the same filter on the same limiter, the whitelist that
\* add_whitelist found (as a one-element sequence), and <<>> otherwise
AddedJustBefore(rate_limiter_id, key_filter) ==
    IF last.op = "add_whitelist" /\ last.l = rate_limiter_id /\ last.arg = key_filter
            /\ last.res = "Ok"
       THEN <<last.was>>
       ELSE <<>>

remove_whitelist(origin, rate_limiter_id, key_filter) ==
    LET whitelist == BypassLimitWhitelist[rate_limiter_id]
        location == binary_search(whitelist, key_filter)
    IN /\ origin = GovernanceOrigin
       /\ BypassLimitWhitelist' =
            IF location.ok
               THEN [BypassLimitWhitelist EXCEPT ![rate_limiter_id] = RemoveAt(whitelist, location.index)]
               ELSE BypassLimitWhitelist
       /\ last' = [op |-> "remove_whitelist", l |-> rate_limiter_id, key |-> <<>>,
                   arg |-> key_filter, res |-> IF location.ok THEN "Ok" ELSE RemoveMissingError,
                   undoes |-> AddedJustBefore(rate_limiter_id, key_filter)]
       /\ UNCHANGED scn
       /\ UNCHANGED <<RateLimitRules, RateLimitQuota, block_number, now_secs>>

reset_whitelist(origin, rate_limiter_id, new_list) ==
    /\ origin = GovernanceOrigin
    /\ IF Len(new_list) > MaxWhitelistFilterCount
          THEN \* BoundedVec::try_from fails
               /\ UNCHANGED BypassLimitWhitelist
               /\ last' = [op |-> "reset_whitelist", l |-> rate_limiter_id, key |-> <<>>,
                           arg |-> Len(new_list), res |-> "MaxFilterExceeded"]
          ELSE /\ BypassLimitWhitelist' = [BypassLimitWhitelist EXCEPT ![rate_limiter_id] = Sort(new_list)]
               /\ last' = [op |-> "reset_whitelist", l |-> rate_limiter_id, key |-> <<>>,
                           arg |-> Len(new_list), res |-> "Ok"]
    /\ UNCHANGED scn
    /\ UNCHANGED <<RateLimitRules, RateLimitQuota, block_number, now_secs>>

\* encode_key.starts_with(&prefix)
starts_with(encode_key, prefix) ==
    Len(prefix) <= Len(encode_key) /\ SubSeq(encode_key, 1, Len(prefix)) = prefix

\* ends_with that compares the front of the key
ends_with_Front(encode_key, postfix) == starts_with(encode_key, postfix)

\* encode_key.ends_with(&postfix)
ends_with(encode_key, postfix) ==
    /\ Len(postfix) <= Len(encode_key)
    /\ SubSeq(encode_key, Len(encode_key) - Len(postfix) + 1, Len(encode_key)) = postfix

\* one arm of the match in bypass_limit
FilterMatches(key_filter, encode_key) ==
    CASE key_filter.kind = "Match" -> encode_key = key_filter.bytes
      [] key_filter.kind = "StartsWith" -> starts_with(encode_key, key_filter.bytes)
      [] OTHER -> ends_with(encode_key, key_filter.bytes)

\* the loop of bypass_limit: true at the first filter that matches
RECURSIVE BypassLoop(_, _)
BypassLoop(whitelist, encode_key) ==
    IF whitelist = <<>> THEN FALSE
    ELSE IF FilterMatches(Head(whitelist), encode_key) THEN TRUE
    ELSE BypassLoop(Tail(whitelist), encode_key)

bypass_limit(limiter_id, key) ==
    /\ last' = [op |-> "bypass_limit", l |-> limiter_id, key |-> key, arg |-> 0,
                res |-> BypassLoop(BypassLimitWhitelist[limiter_id], key)]
    /\ UNCHANGED scn
    /\ UNCHANGED <<RateLimitRules, RateLimitQuota, BypassLimitWhitelist, block_number, now_secs>>

\* the lists reset_whitelist is called with: every list up to one past the capacity
RECURSIVE ListsUpTo(_)
ListsUpTo(n) ==
    IF n = 0 THEN {<<>>}
    ELSE LET shorter == ListsUpTo(n - 1)
         IN shorter \cup {Append(list, f) : list \in {x \in shorter : Len(x) = n - 1}, f \in KeyFilters}

---------------------------------------------------------------------------
(* The history of quota resets, kept while a caller follows the protocol of *)
(* the RateLimiter trait: is_allowed first, record of the same amount next. *)

\* no reset yet since the rule was configured; -1 stands for "no such reset"
NoWindow == [reset_at |-> -1, prev_reset_at |-> -1, spent |-> 0]

\* the two kinds whose replenishment is a reset to the full quota
Resetting(rule) == rule.kind \in {"PerBlocks", "PerSeconds"}

\* update_rate_limit_rule; a rule that is put in force starts a new history
update_tracked(origin, rate_limiter_id, encoded_key, update) ==
    /\ update_rate_limit_rule(origin, rate_limiter_id, encoded_key, update)
    /\ window' = IF last'.res = "Ok"
                    THEN [window EXCEPT ![<<rate_limiter_id, encoded_key>>] = NoWindow]
                    ELSE window

\* is_allowed; a call that changes the stored quota under a PerBlocks or
\* PerSeconds rule is a reset, at the last_updated it stores
is_allowed_tracked(limiter_id, key, value) ==
    /\ is_allowed(limiter_id, key, value)
    /\ window' =
         IF Resetting(rate_limit_rules(limiter_id, key))
                /\ rate_limit_quota(limiter_id, key)' # rate_limit_quota(limiter_id, key)
            THEN [window EXCEPT ![<<limiter_id, key>>] =
                    [reset_at |-> rate_limit_quota(limiter_id, key)'[1],
                     prev_reset_at |-> @.reset_at,
                     spent |-> 0]]
            ELSE window

\* record by a caller that has just been allowed the same amount on the same key
record_after_allowed(limiter_id, key, value) ==
    /\ last.op = "is_allowed" /\ last.l = limiter_id /\ last.key = key
    /\ last.arg = value /\ last.res = "Ok"
    /\ record(limiter_id, key, value)
    /\ window' = IF Resetting(rate_limit_rules(limiter_id, key))
                    THEN [window EXCEPT ![<<limiter_id, key>>].spent = @ + value]
                    ELSE window

---------------------------------------------------------------------------
(* The pallet from genesis.                                                *)

Init ==
    /\ RateLimitRules = [p \in Limiters \X Keys |-> None]
    /\ RateLimitQuota = [p \in Limiters \X Keys |-> Absent]
    /\ BypassLimitWhitelist = [l \in Limiters |-> <<>>]
    /\ block_number = 0
    /\ now_secs = 0
    /\ last = [op |-> "genesis", l |-> 0, key |-> <<>>, arg |-> 0, res |-> "Ok"]
    /\ scn = 0
    /\ window = [p \in Limiters \X Keys |-> NoWindow]

Next ==
    \/ \E o \in Origins, l \in Limiters, k \in Keys, u \in RuleInputs :
            update_rate_limit_rule(o, l, k, u) /\ UNCHANGED window
    \/ \E l \in Limiters, k \in Keys, v \in Amounts : is_allowed(l, k, v) /\ UNCHANGED window
    \/ \E l \in Limiters, k \in Keys, v \in Amounts : record(l, k, v) /\ UNCHANGED window
    \/ NextBlock /\ UNCHANGED window
    \/ NextSecond(MaxSecs) /\ UNCHANGED window

\* the quota side: rule configuration, admission and the clocks
Spec == Init /\ [][Next]_vars

\* the whitelist side, which shares no storage with the quota side
NextWhitelist ==
    \/ \E o \in Origins, l \in Limiters, f \in KeyFilters : add_whitelist(o, l, f) /\ UNCHANGED window
    \/ \E o \in Origins, l \in Limiters, f \in KeyFilters : remove_whitelist(o, l, f) /\ UNCHANGED window
    \/ \E o \in Origins, l \in Limiters, list \in ListsUpTo(MaxWhitelistFilterCount + 1) :
            reset_whitelist(o, l, list) /\ UNCHANGED window
    \/ \E l \in Limiters, k \in EncodedKeys : bypass_limit(l, k) /\ UNCHANGED window

SpecWhitelist == Init /\ [][NextWhitelist]_vars

\* the quota side when nothing is consumed: record is never called
NextNoRecord ==
    \/ \E o \in Origins, l \in Limiters, k \in Keys, u \in RuleInputs :
            update_rate_limit_rule(o, l, k, u) /\ UNCHANGED window
    \/ \E l \in Limiters, k \in Keys, v \in Amounts : is_allowed(l, k, v) /\ UNCHANGED window
    \/ NextBlock /\ UNCHANGED window
    \/ NextSecond(MaxSecs) /\ UNCHANGED window

SpecNoRecord == Init /\ [][NextNoRecord]_vars

\* the PerSeconds example of the specification: its rule, its amounts, its times
NextExample ==
    \/ \E o \in Origins, l \in Limiters, k \in Keys, u \in {ScnRule, None} :
            update_rate_limit_rule(o, l, k, u) /\ UNCHANGED window
    \/ \E l \in Limiters, k \in Keys, v \in ScnAmounts : is_allowed(l, k, v) /\ UNCHANGED window
    \/ \E l \in Limiters, k \in Keys, v \in ScnAmounts : record(l, k, v) /\ UNCHANGED window
    \/ NextSecond(12) /\ UNCHANGED window

SpecExample == Init /\ [][NextExample]_vars

\* the quota side when every record follows the is_allowed that allowed it
NextPaired ==
    \/ \E o \in Origins, l \in Limiters, k \in Keys, u \in RuleInputs : update_tracked(o, l, k, u)
    \/ \E l \in Limiters, k \in Keys, v \in Amounts : is_allowed_tracked(l, k, v)
    \/ \E l \in Limiters, k \in Keys, v \in Amounts : record_after_allowed(l, k, v)
    \/ NextBlock /\ UNCHANGED window
    \/ NextSecond(MaxSecs) /\ UNCHANGED window

SpecPaired == Init /\ [][NextPaired]_vars


---------------------------------------------------------------------------
(* Properties.  `last` names the call of the step just taken, so that in an *)
(* action formula the unprimed variables are the storage before the call   *)
(* and the primed ones the storage after it.                               *)

Max(a, b) == IF a >= b THEN a ELSE b

\* the step is a call of `op` on (l, k)
Called(op, l, k) == last'.op = op /\ last'.l = l /\ last'.key = k

\* C1: under a PerBlocks{b,q} rule, an is_allowed made b or more blocks after
\* the stored last_updated leaves the quota (now, q) and succeeds for every
\* amount <= q; made fewer than b blocks after it, it leaves the quota as it was.
C1_PerBlocksReset ==
    [][\A l \in Limiters, k \in Keys :
         (Called("is_allowed", l, k) /\ rate_limit_rules(l, k).kind = "PerBlocks") =>
            LET rule == rate_limit_rules(l, k)
                before == rate_limit_quota(l, k)
            IN IF block_number - before[1] >= rule.blocks_count
                  THEN /\ rate_limit_quota(l, k)' = <<block_number, rule.quota>>
                       /\ (last'.arg <= rule.quota => last'.res = "Ok")
                       /\ (last'.arg > rule.quota => last'.res = "ExceedLimit")
                  ELSE rate_limit_quota(l, k)' = before]_vars

\* C1 happens: a PerBlocks quota that was consumed is full again after an
\* is_allowed of the whole quota in a later block
C1_Witness ==
    \E l \in Limiters, k \in Keys :
        /\ last.op = "is_allowed" /\ last.l = l /\ last.key = k
        /\ rate_limit_rules(l, k).kind = "PerBlocks"
        /\ rate_limit_rules(l, k).blocks_count > 1
        /\ block_number > rate_limit_rules(l, k).blocks_count
        /\ rate_limit_quota(l, k) = <<block_number, rate_limit_rules(l, k).quota>>
        /\ last.arg = rate_limit_rules(l, k).quota
        /\ last.res = "Ok"

\* the PerSeconds example, step by step: scn counts the calls of the example
\* made so far (1: the rule is configured at time 0, 2: is_allowed 50 at time
\* 0, 3: record 50, 4: is_allowed 60 at time 5, 5: is_allowed 60 at time 12)
ScnQuota == rate_limit_quota(ScnPair[1], ScnPair[2])
\* what the is_allowed of the example returned, while it is the last call made
\* (a clock step in between changes neither scn nor the quota)
Returned(res) == last.op = "is_allowed" => last.res = res

\* C2 as stated: with PerSeconds{10,100} configured at time 0, is_allowed 50 at
\* time 0 is allowed and leaves (0,100); record 50 leaves (0,50); is_allowed 60
\* at time 5 is denied; is_allowed 60 at time 12 is allowed and leaves (12,100).
C2_ExampleAsStated ==
    /\ scn = 2 => (Returned("Ok") /\ ScnQuota = <<0, 100>>)
    /\ scn = 3 => ScnQuota = <<0, 50>>
    /\ scn = 4 => Returned("ExceedLimit")
    /\ scn = 5 => (Returned("Ok") /\ ScnQuota = <<12, 100>>)

\* C2 amended: with PerSeconds{10,100} configured at time 0, is_allowed 50 at
\* time 0 is denied and leaves (0,0), no second having passed since the
\* last_updated of 0; record 50 leaves (0,0); is_allowed 60 at time 5 is
\* denied; is_allowed 60 at time 12 is allowed and leaves (12,100).
C2_ExampleAsRun ==
    /\ scn = 2 => (Returned("ExceedLimit") /\ ScnQuota = <<0, 0>>)
    /\ scn = 3 => ScnQuota = <<0, 0>>
    /\ scn = 4 => (Returned("ExceedLimit") /\ ScnQuota = <<0, 0>>)
    /\ scn = 5 => (Returned("Ok") /\ ScnQuota = <<12, 100>>)

\* C2 happens: the five calls of the example have been made, the last at time 12
C2_Witness == scn = 5 /\ now_secs = 12 /\ last.op = "is_allowed" /\ last.arg = 60

\* C3 as stated: under TokenBucket{b,inc,max}, from the zero quota and with no
\* record, the remainer an is_allowed leaves at block t is min(max, inc * (t div b)),
\* at whatever blocks is_allowed was called before.
C3_TokenBucketAsStated ==
    \A l \in Limiters, k \in Keys :
        (last.op = "is_allowed" /\ last.l = l /\ last.key = k
            /\ rate_limit_rules(l, k).kind = "TokenBucket") =>
            rate_limit_quota(l, k)[2] =
                Min(rate_limit_rules(l, k).max_quota,
                    rate_limit_rules(l, k).quota_increment
                        * (block_number \div rate_limit_rules(l, k).blocks_count))

\* C3 amended: under TokenBucket{b,inc,max}, an is_allowed called at block t
\* while the stored quota is still the zero quota (0,0) - no earlier
\* is_allowed has replenished it - leaves the remainer min(max, inc * (t div b)).
C3_TokenBucketFromZero ==
    [][\A l \in Limiters, k \in Keys :
         (Called("is_allowed", l, k) /\ rate_limit_rules(l, k).kind = "TokenBucket"
             /\ rate_limit_quota(l, k) = ZeroQuota) =>
            rate_limit_quota(l, k)'[2] =
                Min(rate_limit_rules(l, k).max_quota,
                    rate_limit_rules(l, k).quota_increment
                        * (block_number \div rate_limit_rules(l, k).blocks_count))]_vars

\* C3 happens: a token bucket holds two increments, below its max_quota, after
\* two whole intervals of more than one block
C3_Witness ==
    \E l \in Limiters, k \in Keys :
        /\ last.op = "is_allowed" /\ last.l = l /\ last.key = k
        /\ rate_limit_rules(l, k).kind = "TokenBucket"
        /\ rate_limit_rules(l, k).blocks_count > 1
        /\ block_number \div rate_limit_rules(l, k).blocks_count = 2
        /\ 2 * rate_limit_rules(l, k).quota_increment <= rate_limit_rules(l, k).max_quota
        /\ rate_limit_quota(l, k) = <<block_number, 2 * rate_limit_rules(l, k).quota_increment>>

\* C4: the stored remainer quota of a key with a replenishing rule is never
\* above the rule's cap (max_quota of a TokenBucket, quota otherwise).
C4_RemainerWithinCap ==
    \A l \in Limiters, k \in Keys :
        Replenishing(rate_limit_rules(l, k)) =>
            rate_limit_quota(l, k)[2] <= RuleCap(rate_limit_rules(l, k))

\* C4 happens: a token bucket whose increments add up to more than max_quota
\* holds exactly max_quota
C4_Witness ==
    \E l \in Limiters, k \in Keys :
        /\ rate_limit_rules(l, k).kind = "TokenBucket"
        /\ rate_limit_rules(l, k).quota_increment > rate_limit_rules(l, k).max_quota
        /\ rate_limit_quota(l, k)[2] = rate_limit_rules(l, k).max_quota
        /\ last.op = "is_allowed"

\* C5: after a successful update_rate_limit_rule (a new rule, the same rule or
\* None) the key has no quota entry, so its quota reads as the default (0, 0),
\* whatever it was before.
C5_UpdateResetsQuota ==
    [][\A l \in Limiters, k \in Keys :
         (Called("update_rate_limit_rule", l, k) /\ last'.res = "Ok") =>
            /\ RateLimitQuota'[<<l, k>>] = Absent
            /\ rate_limit_quota(l, k)' = ZeroQuota]_vars

\* C5 happens: a rule has been configured in a later block, after which the
\* key has no quota entry
C5_Witness ==
    \E l \in Limiters, k \in Keys :
        /\ last.op = "update_rate_limit_rule" /\ last.l = l /\ last.key = k /\ last.res = "Ok"
        /\ block_number > 0
        /\ Replenishing(rate_limit_rules(l, k))
        /\ RateLimitQuota[<<l, k>>] = Absent

\* C6: update_rate_limit_rule with a PerBlocks, PerSeconds or TokenBucket rule
\* that has a zero parameter fails with InvalidRateLimitRule and leaves the
\* stored rule and the stored quota of the key as they were.
C6_InvalidRuleRejected ==
    [][\A l \in Limiters, k \in Keys :
         (Called("update_rate_limit_rule", l, k)
             /\ last'.arg.kind \in {"PerBlocks", "PerSeconds", "TokenBucket"}
             /\ last'.arg.zero) =>
            /\ last'.res = "InvalidRateLimitRule"
            /\ RateLimitRules' = RateLimitRules
            /\ RateLimitQuota' = RateLimitQuota]_vars

\* C6 happens: an update was rejected while the key held a rule and quota left over
C6_Witness ==
    \E l \in Limiters, k \in Keys :
        /\ last.op = "update_rate_limit_rule" /\ last.l = l /\ last.key = k
        /\ last.res = "InvalidRateLimitRule"
        /\ last.arg = [kind |-> "TokenBucket", zero |-> TRUE]
        /\ Replenishing(rate_limit_rules(l, k))
        /\ rate_limit_quota(l, k)[2] > 0

\* C7: record under a replenishing rule leaves max(0, remainer - amount), also
\* for an amount above the remainer; the remainer is never negative.
C7_RecordSaturates ==
    [][\A l \in Limiters, k \in Keys :
         (Called("record", l, k) /\ Replenishing(rate_limit_rules(l, k))) =>
            /\ rate_limit_quota(l, k)'[2] = Max(0, rate_limit_quota(l, k)[2] - last'.arg)
            /\ rate_limit_quota(l, k)'[2] >= 0]_vars

\* C7 happens: a replenished quota was recorded down to zero
C7_Witness ==
    \E l \in Limiters, k \in Keys :
        /\ last.op = "record" /\ last.l = l /\ last.key = k
        /\ Replenishing(rate_limit_rules(l, k))
        /\ last.arg > RuleCap(rate_limit_rules(l, k))
        /\ rate_limit_quota(l, k)[1] > 0
        /\ rate_limit_quota(l, k)[2] = 0

\* C8: is_allowed under NotAllowed returns ExceedLimit for every amount, 0
\* included; under Unlimited and under no rule it returns Ok for every amount.
C8_ConstantPolicies ==
    \A l \in Limiters, k \in Keys :
        (last.op = "is_allowed" /\ last.l = l /\ last.key = k) =>
            /\ rate_limit_rules(l, k).kind = "NotAllowed" => last.res = "ExceedLimit"
            /\ rate_limit_rules(l, k).kind \in {"Unlimited", "None"} => last.res = "Ok"

\* C8 happens: an amount of 0 was refused under NotAllowed
C8_Witness ==
    \E l \in Limiters, k \in Keys :
        /\ last.op = "is_allowed" /\ last.l = l /\ last.key = k
        /\ rate_limit_rules(l, k).kind = "NotAllowed"
        /\ last.arg = 0
        /\ last.res = "ExceedLimit"
        /\ block_number > 0

\* the filters a whitelist holds
Filters(whitelist) == {whitelist[i] : i \in 1..Len(whitelist)}

\* C9: after any add_whitelist, remove_whitelist and reset_whitelist calls every
\* stored whitelist is sorted in the KeyFilter order and holds no filter twice.
C9_SortedNoDuplicates ==
    \A l \in Limiters :
        \A i, j \in 1..Len(BypassLimitWhitelist[l]) :
            i < j => KeyFilterCmp(BypassLimitWhitelist[l][i], BypassLimitWhitelist[l][j]) = -1

\* C10: remove_whitelist of a filter the whitelist does not hold fails with
\* FilterNotExisted and leaves the whitelist as it was.
C10_RemoveMissingFilter ==
    [][\A l \in Limiters, f \in KeyFilters :
         (last'.op = "remove_whitelist" /\ last'.l = l /\ last'.arg = f
             /\ f \notin Filters(BypassLimitWhitelist[l])) =>
            /\ last'.res = "FilterNotExisted"
            /\ BypassLimitWhitelist' = BypassLimitWhitelist]_vars

\* the step is a whitelist call `op` on limiter l
CalledOn(op, l) == last'.op = op /\ last'.l = l

\* C11 as stated: no whitelist is longer than MaxWhitelistFilterCount;
\* add_whitelist on a whitelist at capacity fails with MaxFilterExceeded,
\* whatever the filter, and leaves the whitelist as it was; reset_whitelist
\* with a longer list fails with MaxFilterExceeded and leaves it as it was.
C11_CapacityAsStated ==
    /\ [](\A l \in Limiters : Len(BypassLimitWhitelist[l]) <= MaxWhitelistFilterCount)
    /\ [][\A l \in Limiters :
            /\ (CalledOn("add_whitelist", l)
                    /\ Len(BypassLimitWhitelist[l]) = MaxWhitelistFilterCount) =>
                  (last'.res = "MaxFilterExceeded" /\ BypassLimitWhitelist' = BypassLimitWhitelist)
            /\ (CalledOn("reset_whitelist", l) /\ last'.arg > MaxWhitelistFilterCount) =>
                  (last'.res = "MaxFilterExceeded" /\ BypassLimitWhitelist' = BypassLimitWhitelist)]_vars

\* C11 amended: no whitelist is longer than MaxWhitelistFilterCount;
\* add_whitelist on a whitelist at capacity fails and leaves the whitelist as
\* it was, with MaxFilterExceeded for a filter the whitelist does not hold and
\* with FilterExisted for one it holds (the presence check comes first);
\* reset_whitelist with a longer list fails with MaxFilterExceeded and leaves
\* the whitelist as it was.
C11_CapacityEnforced ==
    /\ [](\A l \in Limiters : Len(BypassLimitWhitelist[l]) <= MaxWhitelistFilterCount)
    /\ [][\A l \in Limiters :
            /\ (CalledOn("add_whitelist", l)
                    /\ Len(BypassLimitWhitelist[l]) = MaxWhitelistFilterCount) =>
                  /\ last'.res = IF last'.arg \in Filters(BypassLimitWhitelist[l])
                                    THEN "FilterExisted" ELSE "MaxFilterExceeded"
                  /\ BypassLimitWhitelist' = BypassLimitWhitelist
            /\ (CalledOn("reset_whitelist", l) /\ last'.arg > MaxWhitelistFilterCount) =>
                  (last'.res = "MaxFilterExceeded" /\ BypassLimitWhitelist' = BypassLimitWhitelist)]_vars

\* C11 happens: a filter the whitelist does not hold was refused at capacity
C11_Witness ==
    \E l \in Limiters :
        /\ last.op = "add_whitelist" /\ last.l = l
        /\ last.res = "MaxFilterExceeded"
        /\ last.arg \notin Filters(BypassLimitWhitelist[l])
        /\ Len(BypassLimitWhitelist[l]) = MaxWhitelistFilterCount

\* `after` is `before` with f put in at its place in the KeyFilter order:
\* everything in front of it is smaller, everything behind it greater
PutInOrder(before, f, after) ==
    \E i \in 1..(Len(before) + 1) :
        /\ after = SubSeq(before, 1, i - 1) \o <<f>> \o SubSeq(before, i, Len(before))
        /\ \A j \in 1..(i - 1) : KeyFilterCmp(before[j], f) = -1
        /\ \A j \in i..Len(before) : KeyFilterCmp(f, before[j]) = -1

\* C12: add_whitelist of a filter the whitelist holds fails with FilterExisted
\* and leaves the whitelist as it was; of a filter it does not hold, below
\* capacity, it succeeds and the whitelist is the old one with the filter put
\* in at its sorted position.
C12_AddWhitelist ==
    [][\A l \in Limiters :
         CalledOn("add_whitelist", l) =>
            LET before == BypassLimitWhitelist[l]
                f == last'.arg
            IN /\ f \in Filters(before) =>
                    (last'.res = "FilterExisted" /\ BypassLimitWhitelist' = BypassLimitWhitelist)
               /\ (f \notin Filters(before) /\ Len(before) < MaxWhitelistFilterCount) =>
                    /\ last'.res = "Ok"
                    /\ PutInOrder(before, f, BypassLimitWhitelist'[l])
                    /\ \A m \in Limiters \ {l} : BypassLimitWhitelist'[m] = BypassLimitWhitelist[m]]_vars

\* C12 happens: a filter was added in front of a greater one that was there before
C12_Witness ==
    \E l \in Limiters :
        /\ last.op = "add_whitelist" /\ last.l = l /\ last.res = "Ok"
        /\ Len(BypassLimitWhitelist[l]) = 2
        /\ BypassLimitWhitelist[l][1] = last.arg
        /\ KeyFilterCmp(BypassLimitWhitelist[l][1], BypassLimitWhitelist[l][2]) = -1

\* C13: a remove_whitelist of f made right after a successful add_whitelist of
\* f on the same limiter succeeds and leaves exactly the sequence of filters
\* that was stored before the add_whitelist.
C13_AddRemoveRoundTrip ==
    (last.op = "remove_whitelist" /\ last.undoes # <<>>) =>
        /\ last.res = "Ok"
        /\ BypassLimitWhitelist[last.l] = last.undoes[1]

\* C13 happens: a filter added in front of another one was removed again
C13_Witness ==
    /\ last.op = "remove_whitelist" /\ last.undoes # <<>>
    /\ Len(last.undoes[1]) > 0
    /\ KeyFilterCmp(last.arg, last.undoes[1][1]) = -1

\* p is the front of k, byte by byte
IsPrefix(p, k) == Len(p) <= Len(k) /\ \A i \in 1..Len(p) : k[i] = p[i]
\* p is the end of k, byte by byte
IsSuffix(p, k) == Len(p) <= Len(k) /\ \A i \in 1..Len(p) : k[Len(k) - Len(p) + i] = p[i]

\* C14: bypass_limit returns true exactly when the limiter's whitelist holds a
\* Match filter equal to the encoded key, a StartsWith filter that is a prefix
\* of it or an EndsWith filter that is a suffix of it (so false for an empty
\* whitelist), and it changes none of the three storage items.
C14_BypassLimit ==
    [][\A l \in Limiters, k \in EncodedKeys :
         Called("bypass_limit", l, k) =>
            /\ last'.res =
                 (\E f \in Filters(BypassLimitWhitelist[l]) :
                     \/ f.kind = "Match" /\ f.bytes = k
                     \/ f.kind = "StartsWith" /\ IsPrefix(f.bytes, k)
                     \/ f.kind = "EndsWith" /\ IsSuffix(f.bytes, k))
            /\ (BypassLimitWhitelist[l] = <<>> => last'.res = FALSE)
            /\ UNCHANGED <<RateLimitRules, RateLimitQuota, BypassLimitWhitelist>>]_vars

\* C14 happens: a key of three bytes was bypassed by its last byte alone
C14_Witness ==
    \E l \in Limiters :
        /\ last.op = "bypass_limit" /\ last.l = l /\ last.res = TRUE
        /\ last.key = <<0, 1, 1>>
        /\ BypassLimitWhitelist[l] = <<Match(<<1>>), EndsWith(<<1>>)>>

\* the clock a rule reads: the unix time for PerSeconds, the block number otherwise
RuleClock(rule) == IF rule.kind = "PerSeconds" THEN now_secs ELSE block_number
\* the length of the interval of a rule: secs_count for PerSeconds, blocks_count otherwise
RuleCount(rule) == IF rule.kind = "PerSeconds" THEN rule.secs_count ELSE rule.blocks_count
\* what a replenishment makes of the remainer `old` after `interval` ticks
RefillValue(rule, old, interval) ==
    IF rule.kind = "TokenBucket"
       THEN Min(rule.max_quota, old + rule.quota_increment * (interval \div rule.blocks_count))
       ELSE rule.quota

\* C15: under a replenishing rule, an is_allowed called when count or more
\* ticks have passed since last_updated, for an amount above the replenished
\* quota, returns ExceedLimit and still stores (now, replenished quota); and no
\* is_allowed lowers the stored remainer.
C15_ReplenishOnDeny ==
    [][\A l \in Limiters, k \in Keys :
         Called("is_allowed", l, k) =>
            LET rule == rate_limit_rules(l, k)
                before == rate_limit_quota(l, k)
                now == RuleClock(rule)
            IN /\ (Replenishing(rule) /\ now - before[1] >= RuleCount(rule)
                      /\ last'.arg > RefillValue(rule, before[2], now - before[1])) =>
                    /\ last'.res = "ExceedLimit"
                    /\ RateLimitQuota'[<<l, k>>] =
                            <<now, RefillValue(rule, before[2], now - before[1])>>
               /\ rate_limit_quota(l, k)'[2] >= before[2]]_vars

\* C15 happens: an amount above the cap was refused under a token bucket whose
\* stored quota is the one of this block, one increment below the cap
C15_Witness ==
    \E l \in Limiters, k \in Keys :
        /\ last.op = "is_allowed" /\ last.l = l /\ last.key = k /\ last.res = "ExceedLimit"
        /\ rate_limit_rules(l, k).kind = "TokenBucket"
        /\ rate_limit_rules(l, k).blocks_count > 1
        /\ block_number = rate_limit_rules(l, k).blocks_count
        /\ RateLimitQuota[<<l, k>>] = <<block_number, rate_limit_rules(l, k).quota_increment>>
        /\ rate_limit_rules(l, k).quota_increment < rate_limit_rules(l, k).max_quota
        /\ last.arg > rate_limit_rules(l, k).max_quota

\* C16: record under a replenishing rule leaves last_updated as it was and
\* does not raise the remainer, however long ago last_updated was; under
\* Unlimited, NotAllowed or no rule it leaves RateLimitQuota as it was; it
\* never changes RateLimitRules or BypassLimitWhitelist.
C16_RecordFrame ==
    [][\A l \in Limiters, k \in Keys :
         Called("record", l, k) =>
            /\ Replenishing(rate_limit_rules(l, k)) =>
                    /\ rate_limit_quota(l, k)'[1] = rate_limit_quota(l, k)[1]
                    /\ rate_limit_quota(l, k)'[2] <= rate_limit_quota(l, k)[2]
                    /\ \A p \in (Limiters \X Keys) \ {<<l, k>>} : RateLimitQuota'[p] = RateLimitQuota[p]
            /\ ~Replenishing(rate_limit_rules(l, k)) => RateLimitQuota' = RateLimitQuota
            /\ UNCHANGED <<RateLimitRules, BypassLimitWhitelist>>]_vars

\* C16 happens: part of a PerBlocks quota was recorded a whole interval after
\* its last_updated, which is still the old block
C16_Witness ==
    \E l \in Limiters, k \in Keys :
        /\ last.op = "record" /\ last.l = l /\ last.key = k /\ last.arg > 0
        /\ rate_limit_rules(l, k).kind = "PerBlocks"
        /\ rate_limit_quota(l, k)[1] > 0
        /\ block_number - rate_limit_quota(l, k)[1] >= rate_limit_rules(l, k).blocks_count
        /\ rate_limit_quota(l, k)[2] > 0
        /\ rate_limit_quota(l, k)[2] < rate_limit_rules(l, k).quota

\* C17: is_allowed on a key whose rule is Unlimited, NotAllowed or missing
\* leaves RateLimitQuota as it was, creating no entry; under every rule it
\* leaves RateLimitRules and BypassLimitWhitelist as they were.
C17_IsAllowedFrame ==
    [][\A l \in Limiters, k \in Keys :
         Called("is_allowed", l, k) =>
            /\ rate_limit_rules(l, k).kind \in {"Unlimited", "NotAllowed", "None"} =>
                    RateLimitQuota' = RateLimitQuota
            /\ UNCHANGED <<RateLimitRules, BypassLimitWhitelist>>]_vars

\* C17 happens: is_allowed was refused under NotAllowed in a later block and
\* the key still has no quota entry
C17_Witness ==
    \E l \in Limiters, k \in Keys :
        /\ last.op = "is_allowed" /\ last.l = l /\ last.key = k
        /\ rate_limit_rules(l, k).kind = "NotAllowed"
        /\ RateLimitQuota[<<l, k>>] = Absent
        /\ block_number > 1
        /\ last.arg > 0

\* C18: when every record follows the successful is_allowed of the same amount
\* on the same key, under a PerBlocks{b,q} or PerSeconds{s,q} rule the amounts
\* recorded since the last quota reset add up to at most q, and the last two
\* resets under the rule are at least b blocks (s seconds) apart.
C18_RateLimitGuarantee ==
    \A l \in Limiters, k \in Keys :
        Resetting(rate_limit_rules(l, k)) =>
            /\ window[<<l, k>>].spent <= rate_limit_rules(l, k).quota
            /\ window[<<l, k>>].prev_reset_at # -1 =>
                    window[<<l, k>>].reset_at - window[<<l, k>>].prev_reset_at
                        >= RuleCount(rate_limit_rules(l, k))

\* C18 happens: after a second reset the whole quota of a rule was recorded again
C18_Witness ==
    \E l \in Limiters, k \in Keys :
        /\ Resetting(rate_limit_rules(l, k))
        /\ RuleCount(rate_limit_rules(l, k)) > 1
        /\ rate_limit_rules(l, k).quota > 1
        /\ window[<<l, k>>].prev_reset_at # -1
        /\ window[<<l, k>>].spent = rate_limit_rules(l, k).quota
        /\ last.op = "record"

\* C19: right after a successful remove_whitelist of f the limiter's whitelist
\* does not hold f, and a key that no filter of the whitelist other than f
\* matched is not bypassed - from every whitelist that add_whitelist,
\* remove_whitelist and reset_whitelist produce.
C19_RemovalEffective ==
    [][\A l \in Limiters :
         (CalledOn("remove_whitelist", l) /\ last'.res = "Ok") =>
            LET f == last'.arg
            IN /\ f \notin Filters(BypassLimitWhitelist'[l])
               /\ \A k \in EncodedKeys :
                    (\A g \in Filters(BypassLimitWhitelist[l]) \ {f} : ~FilterMatches(g, k)) =>
                        ~BypassLoop(BypassLimitWhitelist'[l], k)]_vars

\* C20: under a TokenBucket{b,inc,max} rule the stored remainer is, in every
\* reachable state, at most min(max, inc * (block number div b)), whatever the
\* order of is_allowed, record, update_rate_limit_rule and new blocks; and an
\* is_allowed that replenishes stores the current block as last_updated, so
\* the blocks beyond a whole multiple of b are dropped, not carried over.
C20_TokenBucketNotOverGranted ==
    /\ [](\A l \in Limiters, k \in Keys :
            rate_limit_rules(l, k).kind = "TokenBucket" =>
                rate_limit_quota(l, k)[2] <=
                    Min(rate_limit_rules(l, k).max_quota,
                        rate_limit_rules(l, k).quota_increment
                            * (block_number \div rate_limit_rules(l, k).blocks_count)))
    /\ [][\A l \in Limiters, k \in Keys :
            (Called("is_allowed", l, k) /\ rate_limit_rules(l, k).kind = "TokenBucket"
                /\ rate_limit_quota(l, k)' # rate_limit_quota(l, k)) =>
               rate_limit_quota(l, k)'[1] = block_number]_vars

\* C20 happens: a token bucket replenished in the middle of an interval holds
\* less than min(max, inc * (block number div b)) after the next multiple of b
C20_Witness ==
    \E l \in Limiters, k \in Keys :
        LET rule == rate_limit_rules(l, k)
            pair == rate_limit_quota(l, k)
        IN /\ rule.kind = "TokenBucket" /\ rule.blocks_count > 1
           /\ last.op = "is_allowed" /\ last.l = l /\ last.key = k
           /\ pair[1] % rule.blocks_count # 0
           /\ pair[2] = rule.quota_increment * (pair[1] \div rule.blocks_count)
           /\ block_number \div rule.blocks_count > pair[1] \div rule.blocks_count
           /\ pair[2] < Min(rule.max_quota, rule.quota_increment * (block_number \div rule.blocks_count))

=============================================================================
